---- MODULE Spec2Model ----
(***************************************************************************)
(* State-machine model of the NestJS authentication backend:               *)
(*   - the users table (entity Users) behind a TypeORM repository,         *)
(*   - AuthService.register / AuthService.login,                           *)
(*   - UsersService and the UsersController routes,                        *)
(*   - the JWT codec (JwtModule, expiresIn '1d') and JWTstrategy/          *)
(*     JwtAuthGuard,                                                       *)
(*   - the books table (entity Books) and BooksService.                    *)
(* Every request is handled by an async handler; each `await` on the       *)
(* repository is a point where another request may run, so a handler is    *)
(* split into one action per repository call.                              *)
(***************************************************************************)
EXTENDS Integers, FiniteSets, Sequences, TLC

VARIABLES users, nextId, now, pc, req, dto, last, issued, nreq,
          books, bookNextId, bookReq, book

vars == <<users, nextId, now, pc, req, dto, last, issued, nreq,
          books, bookNextId, bookReq, book>>

\* the books table and what the handlers of BooksService hold
bookVars == <<books, bookNextId, bookReq, book>>

(***************************************************************************)
(* Bounds of the model.                                                    *)
(***************************************************************************)
\* number of requests the clients send
MaxRequests == 3
\* last instant of the clock (the clock counts half days)
MaxTime == 2

Clients == {"c1", "c2"}
Emails == {"a@x.com", "b@x.com"}
Passwords == {"pw123", "other"}
\* the salts bcrypt draws
Salts == {"s1"}

(***************************************************************************)
(* Program constants.                                                      *)
(***************************************************************************)
\* @Column({ length: 36 }) name: a name is modelled by its length
NameLength == 36
\* bcrypt.hash(password, 10)
BcryptRounds == 10
\* signOptions: { expiresIn: '1d' }, in clock units of half a day
ExpiresIn == 2
\* configService.get('JWT_SECRET'): the key only the server holds
JWT_SECRET == "JWT_SECRET"
\* a key a client can choose for a token it signs itself
OtherKeys == {"guessed"}

Names == {NameLength, NameLength + 1}
\* the ids a client asks for in a path
Ids == {1, 2}

(***************************************************************************)
(* Passwords.  A password column or dto field holds a string: either the   *)
(* text the client sent, or the output of bcrypt.hash, which embeds the    *)
(* cost and the random salt.                                               *)
(***************************************************************************)
Plain(text) == [alg |-> "plain", rounds |-> 0, salt |-> "", text |-> text]

bcryptHashWith(text, rounds, salt) ==
    [alg |-> "bcrypt", rounds |-> rounds, salt |-> salt, text |-> text]

\* bcrypt.hash(s, rounds): the set of its possible outputs (one per salt)
bcryptHash(text, rounds) == {bcryptHashWith(text, rounds, s) : s \in Salts}

\* a faulty variant: the comparison accepts any password for a well-formed hash
bcryptCompareAnyText(text, hash) == hash.alg = "bcrypt"

\* bcrypt.compare(s, hash): false for a string that is no bcrypt hash
bcryptCompare(text, hash) ==
    /\ hash.alg = "bcrypt"
    /\ bcryptHashWith(text, hash.rounds, hash.salt) = hash

(***************************************************************************)
(* The users table.  A row is [id, email, name, password].                 *)
(* A query result is a view of a row: the password column is               *)
(* `select: false`, so a view carries it (as a one-element sequence) only  *)
(* when the query adds it explicitly.                                      *)
(***************************************************************************)
\* a faulty variant: the password column is selected like any other
SelectWithPassword(u) ==
    [id |-> u.id, email |-> u.email, name |-> u.name, password |-> <<u.password>>]

Select(u) == [id |-> u.id, email |-> u.email, name |-> u.name, password |-> <<>>]

AddSelectPassword(u) ==
    [id |-> u.id, email |-> u.email, name |-> u.name, password |-> <<u.password>>]

\* userRepository.find()
RepoFind == {Select(u) : u \in users}

\* userRepository.find({ where: { email } })
RepoFindByEmail(email) == {Select(u) : u \in {x \in users : x.email = email}}

\* userRepository.findOne({ where: { id } }): the matching rows (none = null)
RepoFindOneById(id) == {Select(u) : u \in {x \in users : x.id = id}}

\* a faulty variant: the where clause of the lookup is negated
findOneByEmailNegated(email) ==
    {SelectWithPassword(u) : u \in {x \in users : x.email # email}}

\* createQueryBuilder('user').addSelect('user.password').where(email).getOne():
\* the rows getOne may return (none = null)
findOneByEmail(email) == {AddSelectPassword(u) : u \in {x \in users : x.email = email}}

\* a faulty variant: the email column is not declared unique
InsertOutcomeNoUnique(d) ==
    IF d.name > NameLength THEN "value too long" ELSE "inserted"

\* what the database answers to INSERT INTO users of the dto: the name column
\* is varchar(36), the email column is unique
InsertOutcome(d) ==
    IF d.name > NameLength THEN "value too long"
    ELSE IF \E u \in users : u.email = d.email THEN "duplicate key"
    ELSE "inserted"

InsertedRow(d, id) ==
    [id |-> id, email |-> d.email, name |-> d.name, password |-> d.password]

(***************************************************************************)
(* Responses.  status 0 = no response yet.  `error` is the exception the   *)
(* handler threw ("" = none); an exception that is no HttpException        *)
(* leaves the server as 500.  `data` holds the user objects of the body,   *)
(* `accessToken` the token of a login body, `user` the identity the guard  *)
(* attached to the request.                                                *)
(***************************************************************************)
Response(status, error, message, data, accessToken, user) ==
    [status |-> status, error |-> error, message |-> message, data |-> data,
     accessToken |-> accessToken, user |-> user]

Pending == Response(0, "", "", {}, <<>>, <<>>)

BadRequestException(message) ==
    Response(400, "BadRequestException", message, {}, <<>>, <<>>)

NotFoundException(message) ==
    Response(404, "NotFoundException", message, {}, <<>>, <<>>)

UnauthorizedException ==
    Response(401, "UnauthorizedException", "Unauthorized", {}, <<>>, <<>>)

QueryFailedError(message) ==
    Response(500, "QueryFailedError", message, {}, <<>>, <<>>)

(***************************************************************************)
(* Tokens.  A claim value is a JavaScript number or string.  A token is a  *)
(* payload and a signature; the signature is the HMAC of the payload       *)
(* under a key, `intact` FALSE once a byte of it was flipped.              *)
(***************************************************************************)
JsNumber(n) == [type |-> "number", num |-> n, str |-> ""]
JsString(s) == [type |-> "string", num |-> 0, str |-> s]

HS256(key, payload) == [key |-> key, over |-> payload, intact |-> TRUE]

Payload(sub, email, iat) ==
    [sub |-> sub, email |-> email, iat |-> iat, exp |-> iat + ExpiresIn]

\* jwtService.sign(claims) at time t
jwtSign(sub, email, t) ==
    LET p == Payload(sub, email, t)
    IN  [payload |-> p, signature |-> HS256(JWT_SECRET, p)]

\* a faulty variant: ignoreExpiration: true
jwtVerifyIgnoreExpiration(token, t) ==
    token.signature = HS256(JWT_SECRET, token.payload)

\* verification of passport-jwt with secretOrKey and ignoreExpiration: false
jwtVerify(token, t) ==
    /\ token.signature = HS256(JWT_SECRET, token.payload)
    /\ t < token.payload.exp

\* a faulty variant: the identity takes its id from another claim of the payload
validateWrongClaim(payload) == [id |-> payload.iat, email |-> payload.email]

\* JWTstrategy.validate(payload)
validate(payload) == [id |-> payload.sub, email |-> payload.email]

\* a faulty variant: the strategy looks the subject up in the users table
canActivateStoredUser(bearer, t) ==
    IF bearer = <<>> THEN UnauthorizedException
    ELSE IF ~jwtVerify(bearer[1], t) THEN UnauthorizedException
    ELSE IF RepoFindOneById(bearer[1].payload.sub) = {} THEN UnauthorizedException
    ELSE Response(0, "", "", {}, <<>>, <<validate(bearer[1].payload)>>)

\* JwtAuthGuard on a request whose Authorization header carries `bearer`
\* (<<>> = no bearer token): the response it rejects with, or Pending with the
\* identity attached when the request may proceed
canActivate(bearer, t) ==
    IF bearer = <<>> THEN UnauthorizedException
    ELSE IF ~jwtVerify(bearer[1], t) THEN UnauthorizedException
    ELSE Response(0, "", "", {}, <<>>, <<validate(bearer[1].payload)>>)

\* the tokens a client can put in a header: those the server issued, and
\* what can be made of them without the server's key
FlipSignature(token) == [token EXCEPT !.signature.intact = FALSE]
ExtendExpiry(token) == [token EXCEPT !.payload.exp = @ + ExpiresIn]
SelfSigned(token, key) == [token EXCEPT !.signature.key = key]

\* `issued` remembers each token the server signed with the email that
\* logged in for it
Issued(email, token) == [owner |-> email, token |-> token]

IssuedTokens == {i.token : i \in issued}

Bearers ==
    {<<>>} \cup {<<t>> : t \in IssuedTokens}
           \cup {<<FlipSignature(t)>> : t \in IssuedTokens}
           \cup {<<ExtendExpiry(t)>> : t \in IssuedTokens}
           \cup {<<SelfSigned(t, k)>> : t \in IssuedTokens, k \in OtherKeys}

(***************************************************************************)
(* Requests.  While the handler of client c runs, req[c] is its request,   *)
(* dto[c] the createUserDto it holds across awaits and pc[c] the await it  *)
(* is suspended at ("idle" = no handler running).  `last` is the exchange  *)
(* completed last: the request and the response to it.                     *)
(***************************************************************************)
Request(op, email, name, password, bearer) ==
    [op |-> op, email |-> email, name |-> name, password |-> password,
     bearer |-> bearer]

NoRequest == Request("", "", 0, "", <<>>)

Dto(email, name, password) == [email |-> email, name |-> name, password |-> password]

NoDto == Dto("", 0, Plain(""))

Exchange(r, response) == [req |-> r, resp |-> response]

\* a row of the books table: id, title, author (by its length), price; the
\* nullable description column takes part in no check and is left out
Book(id, title, author, price) ==
    [id |-> id, title |-> title, author |-> author, price |-> price]

NoBook == Book(0, "", 0, 0)

\* a call of BooksService: the id of the path, and the fields of the dto,
\* each <<>> when the dto does not carry it
BookRequest(op, id, title, author, price) ==
    [op |-> op, id |-> id, title |-> title, author |-> author, price |-> price]

NoBookRequest == BookRequest("", 0, <<>>, <<>>, <<>>)

InitBooks ==
    /\ books = {}
    /\ bookNextId = 1
    /\ bookReq = [c \in Clients |-> NoBookRequest]
    /\ book = [c \in Clients |-> NoBook]

Init ==
    /\ users = {}
    /\ nextId = 1
    /\ now = 0
    /\ pc = [c \in Clients |-> "idle"]
    /\ req = [c \in Clients |-> NoRequest]
    /\ dto = [c \in Clients |-> NoDto]
    /\ last = Exchange(NoRequest, Pending)
    /\ issued = {}
    /\ nreq = 0
    /\ InitBooks

\* client c sends a new request
Accept(c) ==
    /\ pc[c] = "idle"
    /\ nreq < MaxRequests
    /\ nreq' = nreq + 1

\* the handler of c for request r ends with the given response
Reply(c, r, response) ==
    /\ last' = Exchange(r, response)
    /\ pc' = [pc EXCEPT ![c] = "idle"]
    /\ req' = [req EXCEPT ![c] = NoRequest]
    /\ dto' = [dto EXCEPT ![c] = NoDto]
    /\ UNCHANGED bookVars

\* the handler of c for request r suspends at the await `at`, holding dto d
Await(c, r, at, d) ==
    /\ last' = last
    /\ pc' = [pc EXCEPT ![c] = at]
    /\ req' = [req EXCEPT ![c] = r]
    /\ dto' = [dto EXCEPT ![c] = d]
    /\ UNCHANGED bookVars

(***************************************************************************)
(* UsersService.create, one step per repository call.                      *)
(***************************************************************************)
\* const { password, ...user } = createUserDto, after insert() has set the
\* generated id on the dto
OmitPassword(d, id) == [id |-> id, email |-> d.email, name |-> d.name, password |-> <<>>]

\* prevUser = await find({ where: { email } }); if (prevUser.length > 0) throw
createFind(c, r, d) ==
    IF RepoFindByEmail(d.email) # {}
    THEN Reply(c, r, BadRequestException("User already exists"))
    ELSE Await(c, r, "create.insert", d)

\* await insert(createUserDto); return { message, data: user }
createInsert(c, r, d) ==
    LET outcome == InsertOutcome(d)
    IN  /\ nextId' = nextId + 1
        /\ IF outcome = "inserted"
           THEN /\ users' = users \cup {InsertedRow(d, nextId)}
                /\ Reply(c, r, Response(201, "", "user created successfully",
                                        {OmitPassword(d, nextId)}, <<>>, <<>>))
           ELSE /\ users' = users
                /\ Reply(c, r, QueryFailedError(outcome))

(***************************************************************************)
(* AuthController / AuthService.                                           *)
(***************************************************************************)
\* a faulty variant: the auth routes are put behind the JWT guard
AuthControllerJwtGuard(bearer, t) == canActivate(bearer, t)

\* the guards AuthController declares on its routes: none, every request
\* proceeds to its handler (Pending = not answered by a guard)
AuthControllerGuards(bearer, t) == Pending

\* POST /auth/register, up to the call of usersService.create:
\* findOneByEmail, then bcrypt.hash of the password into the dto
Register(c, email, name, password) ==
    /\ Accept(c)
    /\ LET r == Request("register", email, name, password, <<>>)
           g == AuthControllerGuards(r.bearer, now)
       IN  IF g.status = 401
           THEN Reply(c, r, g)
           ELSE IF findOneByEmail(email) # {}
           THEN Reply(c, r, BadRequestException("Username Already exists"))
           ELSE \E h \in bcryptHash(password, BcryptRounds) :
                    Await(c, r, "register.create", Dto(email, name, h))
    /\ UNCHANGED <<users, nextId, now, issued>>

\* register: usersService.create(registerDto), its find
RegisterCreate(c) ==
    /\ pc[c] = "register.create"
    /\ createFind(c, req[c], dto[c])
    /\ UNCHANGED <<users, nextId, now, issued, nreq>>

\* the token of a successful login: jwtService.sign({ sub: user.id, email: user.id })
loginToken(user, t) == jwtSign(user.id, JsNumber(user.id), t)

\* POST /auth/login
Login(c, email, password) ==
    /\ Accept(c)
    /\ LET r == Request("login", email, 0, password, <<>>)
           g == AuthControllerGuards(r.bearer, now)
           found == findOneByEmail(email)
       IN  IF g.status = 401
           THEN /\ Reply(c, r, g)
                /\ issued' = issued
           ELSE IF found = {}
           THEN /\ Reply(c, r, BadRequestException("Incorrect username or password"))
                /\ issued' = issued
           ELSE \E user \in found :
                  IF ~bcryptCompare(password, user.password[1])
                  THEN /\ Reply(c, r, BadRequestException("Incorrect username or password"))
                       /\ issued' = issued
                  ELSE /\ Reply(c, r, Response(201, "", "", {},
                                               <<loginToken(user, now)>>, <<>>))
                       /\ issued' = issued \cup {Issued(email, loginToken(user, now))}
    /\ UNCHANGED <<users, nextId, now>>

(***************************************************************************)
(* UsersController.  The controller carries no guard: each route runs its  *)
(* handler whatever the Authorization header holds.                        *)
(***************************************************************************)
\* POST /users: usersService.create(createUserDto), its find
UsersCreate(c, bearer, email, name, password) ==
    /\ Accept(c)
    /\ createFind(c, Request("users.create", email, name, password, bearer),
                  Dto(email, name, Plain(password)))
    /\ UNCHANGED <<users, nextId, now, issued>>

\* the insert of usersService.create, for POST /users and POST /auth/register
CreateInsert(c) ==
    /\ pc[c] = "create.insert"
    /\ createInsert(c, req[c], dto[c])
    /\ UNCHANGED <<now, issued, nreq>>

\* GET /users
UsersFindAll(c, bearer) ==
    /\ Accept(c)
    /\ Reply(c, Request("users.findAll", "", 0, "", bearer),
             Response(200, "", "", RepoFind, <<>>, <<>>))
    /\ UNCHANGED <<users, nextId, now, issued>>

\* usersService.findOne(id)
findOne(id) ==
    IF RepoFindOneById(id) = {}
    THEN NotFoundException("User not found")
    ELSE Response(200, "", "", RepoFindOneById(id), <<>>, <<>>)

\* GET /users/:id
UsersFindOne(c, bearer, id) ==
    /\ Accept(c)
    /\ Reply(c, Request("users.findOne", "", 0, "", bearer), findOne(id))
    /\ UNCHANGED <<users, nextId, now, issued>>

\* PATCH /users/:id
UsersUpdate(c, bearer, id) ==
    /\ Accept(c)
    /\ Reply(c, Request("users.update", "", 0, "", bearer),
             Response(200, "", "This action updates a user", {}, <<>>, <<>>))
    /\ UNCHANGED <<users, nextId, now, issued>>

\* DELETE /users/:id
UsersRemove(c, bearer, id) ==
    /\ Accept(c)
    /\ Reply(c, Request("users.remove", "", 0, "", bearer),
             Response(200, "", "This action removes a user", {}, <<>>, <<>>))
    /\ UNCHANGED <<users, nextId, now, issued>>

\* a faulty variant: a token is good for one verification only
JwtAuthGuardOnce(c, bearer) ==
    /\ Accept(c)
    /\ LET r == Request("guard", "", 0, "", bearer)
           g == canActivate(bearer, now)
       IN  IF g.status = 401
           THEN Reply(c, r, g)
           ELSE Reply(c, r, Response(200, "", "", {}, <<>>, g.user))
    /\ issued' = {i \in issued : bearer = <<>> \/ i.token # bearer[1]}
    /\ UNCHANGED <<users, nextId, now>>

(***************************************************************************)
(* JwtAuthGuard = AuthGuard('jwt') over JWTstrategy, applied to a request  *)
(* with the given Authorization header: 401, or the request proceeds with  *)
(* request.user set.                                                       *)
(***************************************************************************)
JwtAuthGuard(c, bearer) ==
    /\ Accept(c)
    /\ LET r == Request("guard", "", 0, "", bearer)
           g == canActivate(bearer, now)
       IN  IF g.status = 401
           THEN Reply(c, r, g)
           ELSE Reply(c, r, Response(200, "", "", {}, <<>>, g.user))
    /\ UNCHANGED <<users, nextId, now, issued>>

\* time passes
Tick ==
    /\ now < MaxTime
    /\ now' = now + 1
    /\ UNCHANGED <<users, nextId, pc, req, dto, last, issued, nreq>>
    /\ UNCHANGED bookVars

Next ==
    \/ \E c \in Clients, e \in Emails, n \in Names, p \in Passwords : Register(c, e, n, p)
    \/ \E c \in Clients : RegisterCreate(c)
    \/ \E c \in Clients : CreateInsert(c)
    \/ \E c \in Clients, e \in Emails, p \in Passwords : Login(c, e, p)
    \/ \E c \in Clients, b \in Bearers, e \in Emails, n \in Names, p \in Passwords :
          UsersCreate(c, b, e, n, p)
    \/ \E c \in Clients, b \in Bearers : UsersFindAll(c, b)
    \/ \E c \in Clients, b \in Bearers, id \in Ids : UsersFindOne(c, b, id)
    \/ \E c \in Clients, b \in Bearers, id \in Ids : UsersUpdate(c, b, id)
    \/ \E c \in Clients, b \in Bearers, id \in Ids : UsersRemove(c, b, id)
    \/ \E c \in Clients, b \in Bearers : JwtAuthGuard(c, b)
    \/ Tick

Spec == Init /\ [][Next]_vars

(***************************************************************************)
(* Vocabulary of the properties.                                           *)
(***************************************************************************)
\* the error categories of the interface
DuplicateIdentity(r) == r.status = 400 /\ r.error = "BadRequestException"
InvalidCredentials == BadRequestException("Incorrect username or password")

Answered(op) == last.req.op = op /\ last.resp.status # 0
Registered(email) == \E u \in users : u.email = email

\* a Register answered with anything but 'Username Already exists' found its
\* email absent from the store when it was called: the handler answers with
\* that message exactly when its first lookup finds the email
RegisterOfAbsentEmail ==
    /\ Answered("register")
    /\ last.resp.message # "Username Already exists"

UsersRoutes == {"users.create", "users.findAll", "users.findOne",
                "users.update", "users.remove"}

\* the header carries no bearer token, or one whose signature does not verify
\* under the server's secret
NoValidSignature(bearer) ==
    \/ bearer = <<>>
    \/ bearer[1].signature # HS256(JWT_SECRET, bearer[1].payload)

(***************************************************************************)
(* C1: for every email E not in the store, Register(E, name, password)     *)
(* succeeds and creates exactly one user with email E; a later Login with  *)
(* E and the same password succeeds and returns a token the guard accepts  *)
(* before its expiry.                                                      *)
(***************************************************************************)
C1_RegisterThenLogin ==
    /\ RegisterOfAbsentEmail =>
          /\ last.resp.status = 201
          /\ Cardinality({u \in users : u.email = last.req.email}) = 1
    /\ (/\ Answered("login")
        /\ \E u \in users : /\ u.email = last.req.email
                            /\ u.password \in bcryptHash(last.req.password, BcryptRounds))
       => /\ last.resp.status = 201
          /\ Len(last.resp.accessToken) = 1
          /\ \A at \in now .. (last.resp.accessToken[1].payload.exp - 1) :
                canActivate(last.resp.accessToken, at).status # 401

(***************************************************************************)
(* C2: for every email E already in the store, Register(E, ...) fails      *)
(* with DuplicateIdentity whatever the other fields are, and the store is  *)
(* the same after the call as before it.                                   *)
(***************************************************************************)
C2_DuplicateRegisterRejected ==
    [][\A c \in Clients, e \in Emails, n \in Names, p \in Passwords :
          (Register(c, e, n, p) /\ Registered(e))
          => /\ last'.req = Request("register", e, n, p, <<>>)
             /\ DuplicateIdentity(last'.resp)
             /\ last'.resp.message = "Username Already exists"
             /\ users' = users
             /\ pc'[c] = "idle"]_vars

C2_Witness ==
    /\ Answered("register")
    /\ Registered(last.req.email)
    /\ DuplicateIdentity(last.resp)
    /\ last.req.name > NameLength

(***************************************************************************)
(* C3: Login with a registered email and a wrong password, and Login with  *)
(* an email that is not registered, both fail with the same                *)
(* InvalidCredentials response (same category, same message), and          *)
(* neither issues a token.                                                 *)
(***************************************************************************)
WrongPassword(email, password) ==
    /\ Registered(email)
    /\ \A u \in users : u.email = email => u.password.text # password

C4_UsersRoutesGuarded ==
    /\ (/\ last.req.op \in UsersRoutes
        /\ last.resp.status # 0
        /\ NoValidSignature(last.req.bearer))
       => last.resp.status = 401
    /\ \A c \in Clients :
          (req[c].op \in UsersRoutes /\ NoValidSignature(req[c].bearer))
          => pc[c] = "idle"

(***************************************************************************)
(* C5: a token issued by Login for user U and presented to the guard       *)
(* before its expiry resolves to an identity whose id is U's id.           *)
(***************************************************************************)
IssuedAndFresh(bearer) ==
    /\ bearer # <<>>
    /\ bearer[1] \in IssuedTokens
    /\ now < bearer[1].payload.exp

C5_SubjectRoundTrips ==
    (Answered("guard") /\ IssuedAndFresh(last.req.bearer))
    => /\ last.resp.status = 200
       /\ Len(last.resp.user) = 1
       /\ \A i \in issued :
             i.token = last.req.bearer[1] =>
                /\ Registered(i.owner)
                /\ \A u \in users : u.email = i.owner => last.resp.user[1].id = u.id

C5_Witness ==
    /\ Answered("guard")
    /\ IssuedAndFresh(last.req.bearer)
    /\ last.resp.status = 200
    /\ last.resp.user[1].id \in {u.id : u \in users}

(***************************************************************************)
(* C6: a token presented to the guard once its time-to-live (1 day from    *)
(* issuance) has elapsed is rejected with Unauthorized even when its       *)
(* signature and payload are valid; a token the guard accepts is one       *)
(* Login issued less than the time-to-live ago.                            *)
(***************************************************************************)
C6_ExpiredTokenRejected ==
    [][\A c \in Clients, b \in Bearers :
          (JwtAuthGuard(c, b) /\ b # <<>>)
          => /\ now >= b[1].payload.iat + ExpiresIn => last'.resp = UnauthorizedException
             /\ last'.resp.status # 401 =>
                   /\ b[1] \in IssuedTokens
                   /\ now < b[1].payload.iat + ExpiresIn]_vars

C6_Witness ==
    /\ Answered("guard")
    /\ last.req.bearer # <<>>
    /\ last.req.bearer[1] \in IssuedTokens
    /\ last.resp = UnauthorizedException

(***************************************************************************)
(* C7: in every reachable state the password of every stored user is a     *)
(* hash produced by the password hasher, never the plaintext a client      *)
(* supplied.                                                               *)
(***************************************************************************)
C7_StoredPasswordsHashed ==
    \A u \in users :
        /\ u.password.alg = "bcrypt"
        /\ u.password # Plain(u.password.text)

(***************************************************************************)
(* C8: no response of Register, Login or a users route contains a          *)
(* password or password hash; Register returns only the id, email and      *)
(* name of the user it created.                                            *)
(***************************************************************************)
C8_NoPasswordInResponses ==
    /\ \A v \in last.resp.data : v.password = <<>>
    /\ (Answered("register") /\ last.resp.status = 201)
       => \E u \in users :
             /\ u.email = last.req.email
             /\ last.resp.data =
                   {[id |-> u.id, email |-> u.email, name |-> u.name, password |-> <<>>]}

C8_Witness ==
    /\ Answered("users.findAll")
    /\ \E v \in last.resp.data :
          \E u \in users : u.id = v.id /\ u.password.alg = "bcrypt"

(***************************************************************************)
(* C9: in every reachable state, under any interleaving of Register and    *)
(* user-create requests, no two stored users have the same email.          *)
(***************************************************************************)
C9_EmailsUnique ==
    \A u \in users, v \in users : u.email = v.email => u = v

C9_Witness ==
    /\ last.resp.error = "QueryFailedError"
    /\ last.resp.message = "duplicate key"
    /\ Registered(last.req.email)

(***************************************************************************)
(* C10: when two Registers of the same unregistered email both pass the    *)
(* existence pre-check, exactly one creates the user and the other fails   *)
(* with DuplicateIdentity, never with an unconverted storage-layer error.  *)
(***************************************************************************)
C10_RaceLoserGetsDuplicateIdentity ==
    (/\ Answered("register")
     /\ last.req.name <= NameLength
     /\ last.resp.status # 201)
    => /\ DuplicateIdentity(last.resp)
       /\ Cardinality({u \in users : u.email = last.req.email}) = 1

(***************************************************************************)
(* The guard over a store it did not see grow.  The users table and the    *)
(* signing secret outlive the server process, and a token lives with the   *)
(* client: the server can start over a table that holds any rows, while    *)
(* clients still hold tokens signed for ids that the table held before.    *)
(***************************************************************************)
\* the rows registration can have stored; the guard never reads a password,
\* one stands for all
StoredRows ==
    {InsertedRow(Dto(e, NameLength, h), id) :
        e \in Emails, id \in Ids,
        h \in bcryptHash(CHOOSE p \in Passwords : TRUE, BcryptRounds)}

Stores ==
    {S \in SUBSET StoredRows :
        \A u \in S, v \in S : (u.email = v.email \/ u.id = v.id) => u = v}

\* how many tokens of earlier logins are in circulation when the server starts
MaxEarlierTokens == 2

\* the times of an earlier login whose token has not expired at time 0
EarlierTimes == (1 - ExpiresIn)..0

\* tokens signed by an earlier login
EarlierTokens ==
    {Issued(e, loginToken([id |-> id], t)) :
        e \in Emails, id \in Ids, t \in EarlierTimes}

InitGuard ==
    /\ users \in Stores
    /\ nextId = 3
    /\ now = 0
    /\ pc = [c \in Clients |-> "idle"]
    /\ req = [c \in Clients |-> NoRequest]
    /\ dto = [c \in Clients |-> NoDto]
    /\ last = Exchange(NoRequest, Pending)
    /\ issued \in {I \in SUBSET EarlierTokens : Cardinality(I) <= MaxEarlierTokens}
    /\ nreq = 0
    /\ InitBooks

NextGuard ==
    \/ \E c \in Clients, b \in Bearers : JwtAuthGuard(c, b)
    \/ Tick

SpecGuard == InitGuard /\ [][NextGuard]_vars

\* the bearer token verifies: intact signature under the server's secret,
\* not yet expired
SignedAndFresh(bearer) ==
    /\ bearer # <<>>
    /\ bearer[1].signature = HS256(JWT_SECRET, bearer[1].payload)
    /\ now < bearer[1].payload.exp

C12_IdentityCarriesEmail ==
    (Answered("guard") /\ IssuedAndFresh(last.req.bearer))
    => /\ last.resp.status = 200
       /\ Len(last.resp.user) = 1
       /\ \A i \in issued :
             i.token = last.req.bearer[1] =>
                \A u \in users :
                    u.email = i.owner =>
                       /\ last.resp.user[1].id = u.id
                       /\ last.resp.user[1].email = JsString(u.email)

AuthorLength == 36

Titles == {"Dune", "Emma"}
Authors == {AuthorLength, AuthorLength + 1}
Prices == {10, 20}
\* UpdateBookDto = PartialType(CreateBookDto): a title or none, a price or none
UpdateBookDtos ==
    {BookRequest("", 0, t, <<>>, p) :
        t \in {<<>>} \cup {<<x>> : x \in Titles},
        p \in {<<>>} \cup {<<x>> : x \in Prices}}

\* booksRepository.findOne({ where: { title } }) and ({ where: { id } })
BooksFindOneByTitle(title) == {b \in books : b.title = title}
BooksFindOneById(id) == {b \in books : b.id = id}

\* the handler of c for call r ends with the given response
BookReply(c, r, response) ==
    /\ last' = Exchange(r, response)
    /\ pc' = [pc EXCEPT ![c] = "idle"]
    /\ bookReq' = [bookReq EXCEPT ![c] = NoBookRequest]
    /\ book' = [book EXCEPT ![c] = NoBook]
    /\ UNCHANGED <<users, nextId, now, req, dto, issued>>

\* the handler of c for call r suspends at the await `at`, holding b
BookAwait(c, r, at, b) ==
    /\ last' = last
    /\ pc' = [pc EXCEPT ![c] = at]
    /\ bookReq' = [bookReq EXCEPT ![c] = r]
    /\ book' = [book EXCEPT ![c] = b]
    /\ UNCHANGED <<users, nextId, now, req, dto, issued>>

\* BooksService.create up to its insert: the lookup by title
BooksCreate(c, title, author, price) ==
    /\ Accept(c)
    /\ LET r == BookRequest("books.create", 0, <<title>>, <<author>>, <<price>>)
       IN  IF BooksFindOneByTitle(title) # {}
           THEN BookReply(c, r, BadRequestException("Book Already Exist"))
           ELSE BookAwait(c, r, "books.insert", Book(0, title, author, price))
    /\ UNCHANGED <<books, bookNextId>>

\* what the database answers to INSERT INTO books of the dto: the author
\* column is varchar(36), the title column is unique
BooksInsertOutcome(d) ==
    IF d.author > AuthorLength THEN "value too long"
    ELSE IF \E b \in books : b.title = d.title THEN "duplicate key"
    ELSE "inserted"

\* BooksService.create: booksRepository.insert(createBookDto) and the return;
\* insert() sets the generated id on the dto
BooksInsert(c) ==
    /\ pc[c] = "books.insert"
    /\ LET r == bookReq[c]
           outcome == BooksInsertOutcome(book[c])
           row == [book[c] EXCEPT !.id = bookNextId]
       IN  IF outcome = "inserted"
           THEN /\ books' = books \cup {row}
                /\ BookReply(c, r, Response(201, "", "added to books", {row}, <<>>, <<>>))
           ELSE /\ books' = books
                /\ BookReply(c, r, QueryFailedError(outcome))
    /\ bookNextId' = bookNextId + 1
    /\ nreq' = nreq

\* const newBook = { ...book, ...updateBookDto }
NewBook(b, d) ==
    [b EXCEPT !.title = IF d.title = <<>> THEN @ ELSE d.title[1],
              !.price = IF d.price = <<>> THEN @ ELSE d.price[1]]

\* BooksService.update up to its write: findOne(id), then newBook
BooksUpdate(c, id, d) ==
    /\ Accept(c)
    /\ LET r == BookRequest("books.update", id, d.title, <<>>, d.price)
           found == BooksFindOneById(id)
       IN  IF found = {}
           THEN BookReply(c, r, NotFoundException("Book not found"))
           ELSE \E b \in found : BookAwait(c, r, "books.update", NewBook(b, d))
    /\ UNCHANGED <<books, bookNextId>>

\* what the database answers to UPDATE books SET ... WHERE id = id: a
\* statement that matches no row changes nothing and is no error
BooksUpdateOutcome(id, n) ==
    IF BooksFindOneById(id) = {} THEN "no row"
    ELSE IF \E b \in books : b.id # id /\ b.title = n.title THEN "duplicate key"
    ELSE "updated"

\* BooksService.update: booksRepository.update(id, newBook) and the return
BooksUpdateWrite(c) ==
    /\ pc[c] = "books.update"
    /\ LET r == bookReq[c]
           n == book[c]
           outcome == BooksUpdateOutcome(r.id, n)
       IN  IF outcome = "duplicate key"
           THEN /\ books' = books
                /\ BookReply(c, r, QueryFailedError(outcome))
           ELSE /\ books' = {IF b.id = r.id THEN n ELSE b : b \in books}
                /\ BookReply(c, r, Response(200, "", "updated successfully", {n}, <<>>, <<>>))
    /\ UNCHANGED <<bookNextId, nreq>>

\* BooksService.remove up to its delete: findOne(id)
BooksRemove(c, id) ==
    /\ Accept(c)
    /\ LET r == BookRequest("books.remove", id, <<>>, <<>>, <<>>)
           found == BooksFindOneById(id)
       IN  IF found = {}
           THEN BookReply(c, r, NotFoundException("Book not found"))
           ELSE \E b \in found : BookAwait(c, r, "books.delete", b)
    /\ UNCHANGED <<books, bookNextId>>

\* BooksService.remove: booksRepository.delete(id) and the return
BooksDelete(c) ==
    /\ pc[c] = "books.delete"
    /\ books' = {b \in books : b.id # bookReq[c].id}
    /\ BookReply(c, bookReq[c], Response(200, "", "deleted successfully", {}, <<>>, <<>>))
    /\ UNCHANGED <<bookNextId, nreq>>

\* BooksService.findAll
BooksFindAll(c) ==
    /\ Accept(c)
    /\ BookReply(c, BookRequest("books.findAll", 0, <<>>, <<>>, <<>>),
                 Response(200, "", "", books, <<>>, <<>>))
    /\ UNCHANGED <<books, bookNextId>>

\* BooksService.findOne
BooksFindOne(c, id) ==
    /\ Accept(c)
    /\ LET r == BookRequest("books.findOne", id, <<>>, <<>>, <<>>)
       IN  IF BooksFindOneById(id) = {}
           THEN BookReply(c, r, NotFoundException("Book not found"))
           ELSE BookReply(c, r, Response(200, "", "", BooksFindOneById(id), <<>>, <<>>))
    /\ UNCHANGED <<books, bookNextId>>

NextBooks ==
    \/ \E c \in Clients, t \in Titles, a \in Authors, p \in Prices : BooksCreate(c, t, a, p)
    \/ \E c \in Clients : BooksInsert(c)
    \/ \E c \in Clients, id \in Ids, d \in UpdateBookDtos : BooksUpdate(c, id, d)
    \/ \E c \in Clients : BooksUpdateWrite(c)
    \/ \E c \in Clients, id \in Ids : BooksRemove(c, id)
    \/ \E c \in Clients : BooksDelete(c)
    \/ \E c \in Clients : BooksFindAll(c)
    \/ \E c \in Clients, id \in Ids : BooksFindOne(c, id)

SpecBooks == Init /\ [][NextBooks]_vars

\* the call asks for nothing the columns cannot hold
FitsColumns(r) == r.author = <<>> \/ r.author[1] <= AuthorLength

(***************************************************************************)
(* C16: BooksService.create with a title that belongs to a stored book     *)
(* fails with BadRequest and inserts nothing; in every reachable state,    *)
(* under any interleaving of create and update calls, no two stored books  *)
(* have the same title, and every rejected create or update surfaces as a  *)
(* 4xx, never as a storage error.                                          *)
(***************************************************************************)
C16_UniqueTitlesRejectedAs4xx ==
    /\ \A a \in books, b \in books : a.title = b.title => a = b
    /\ (/\ Answered("books.create") \/ Answered("books.update")
        /\ FitsColumns(last.req)
        /\ last.resp.error # "")
       => /\ last.resp.status \in 400..499
          /\ last.resp.error # "QueryFailedError"
    /\ (Answered("books.create") /\ last.resp.status = 400)
       => /\ last.resp = BadRequestException("Book Already Exist")
          /\ \E b \in books : <<b.title>> = last.req.title

(***************************************************************************)
(* C17: BooksService.update and BooksService.remove report success only    *)
(* when a book with that id is in the table at the moment the write is     *)
(* applied; for an id with no book they fail with NotFound and leave the   *)
(* table unchanged, also when another request deleted the book between     *)
(* the existence check and the write; after a successful update the row    *)
(* stored under the id equals the returned data.                           *)
(***************************************************************************)
C17_WriteNeedsStoredBook ==
    [][\A c \in Clients :
          /\ (BooksUpdateWrite(c) \/ BooksDelete(c)) =>
                IF BooksFindOneById(bookReq[c].id) = {}
                THEN /\ last'.resp = NotFoundException("Book not found")
                     /\ books' = books
                ELSE last'.resp.status = 200 =>
                        (BooksUpdateWrite(c) =>
                            last'.resp.data = {b \in books' : b.id = bookReq[c].id})
          /\ \A id \in Ids :
                ((\E d \in UpdateBookDtos : BooksUpdate(c, id, d)) \/ BooksRemove(c, id))
                /\ BooksFindOneById(id) = {}
                => /\ last'.resp = NotFoundException("Book not found")
                   /\ books' = books]_vars

====
